---- MODULE Spec2Model ----
(***************************************************************************)
(* Live frame relay of the roast-bot backend (src/backend/main.py):        *)
(* the in-memory stream store (active_streams, stream_frames, stream_lock),*)
(* the two ingest handlers, the listing and analysis handlers, and the     *)
(* MJPEG generator served to viewers.                                      *)
(*                                                                         *)
(* Execution model.  Every handler is an `async def` and runs on the one   *)
(* event-loop thread: a handler runs from its start to its return without  *)
(* another handler running in between (none of them awaits after its first *)
(* line), but it may block on stream_lock, and while it does, the event    *)
(* loop handles nothing else.  stream_frames_generator is a plain (sync)   *)
(* generator: each viewer's generator runs in a worker thread of its own,  *)
(* concurrently with the event loop and with the other viewers.            *)
(*                                                                         *)
(* Time is counted in units of 1/30 second, so that 1/15 s, 0.1 s and 30 s *)
(* are whole numbers.                                                      *)
(***************************************************************************)
EXTENDS Integers, Sequences, FiniteSets, TLC

---------------------------------------------------------------------------
(* Program constants *)

\* deque(maxlen=30)
RingCapacity == 30

\* min_frame_interval = 1.0 / 15, in units of 1/30 s
MinFrameInterval == 2

\* time.sleep(0.1), in units of 1/30 s
IdleSleep == 3

\* "if current_time - stream_data["last_frame"] < 30", in units of 1/30 s
LivenessWindow == 900

\* RASPI_API_KEY
RASPI_API_KEY == "raspberry_secret_key"

\* ELEVENLABS_VOICE_ID, the default voice
ELEVENLABS_VOICE_ID == "jsCqWAovK2LkecY7zXl4"

\* time.time() counts from 1970: the clock never reads less than
\* min_frame_interval, which is all the generator's first comparison with
\* last_frame_time = 0 depends on.
Epoch == MinFrameInterval

---------------------------------------------------------------------------
(* Bounds of the model *)

\* requests handled by the event loop in one behaviour of Spec
MaxRequests == 2

\* chunks one viewer emits
MaxEmit == 3

\* time that passes in one behaviour of Spec, in units of 1/30 s
MaxElapsed == 3

\* ingest requests beyond RingCapacity in one behaviour of SpecRing
RingExtra == 1

\* ingest requests handled in one behaviour of SpecViewers
ViewersRequests == 1

\* ingest requests that arrive in one behaviour of SpecOrder
OrderRequests == 2

\* ingest requests that arrive in one behaviour of SpecLive
LiveRequests == 1

\* trigger-roast requests in one behaviour of SpecRoast
RoastRequests == 1
RoutesRequests == 2
WatchRequests == 1

\* requests handled by the event loop in one behaviour of SpecRegistry
RegistryRequests == 2

\* time that passes beyond the liveness window in one behaviour of
\* SpecRegistry, in units of 1/30 s
RegistrySlack == 2

---------------------------------------------------------------------------
(* Inputs *)

StreamIds == {"cam1", "cam2"}

Viewers == {"v1", "v2"}

\* X-API-Key header values: the key, and anything else (no header included)
Keys == {RASPI_API_KEY, "wrong"}

\* Characters of a frame string: "J", "q", "x" stand for characters of the
\* base64 alphabet, "=" is the padding character, "!" is a character outside
\* the alphabet.
DataChars == {"J", "q", "x"}

PadChar == "="

\* Byte strings are written as the sequence of base64 data characters that
\* encode them; <<>> is b"".
ImageA == <<"J", "q", "q", "q">>

ImageB == <<"J", "x", "x", "x">>

NotAnImage == <<"x", "x", "x", "x">>

\* `frame` strings of the JSON entry point
JsonFrames ==
  { <<>>,                              \* empty string
    ImageA, ImageB,                    \* base64 of an image
    <<"J", "!", "q", "q", "q">>,       \* ImageA with a stray character
    NotAnImage,                        \* base64 of bytes that are no image
    <<"J", "q", "q">>,                 \* padding missing
    <<"x", "!", "!">> }                \* like "not-base64!!"

\* file parts of the multipart entry point
UploadFiles == { <<>>, ImageA, ImageB, NotAnImage }

\* Python's None
None == "None"

\* `request` bodies of trigger-roast: user_id, name and voice_id, each given
\* or not (request.get returns None), voice_id also given empty
RoastBodies ==
  [user_id : {None, "user-1"}, name : {None, "Ann"},
   voice_id : {None, "", "voiceA"}]

\* tts_format: absent (None), or a TtsFormat with its format and voice_id
TtsFormats ==
  {[given |-> FALSE, format |-> "mp3", voice_id |-> None]}
    \cup [given : {TRUE}, format : {"mp3", "pcm"}, voice_id : {None, "voiceB"}]

\* How far a trigger-roast request gets, for what the database and the two
\* services answer
RoastOutcomes == {"no_user", "no_configs", "llm_error", "tts_error", "audio"}

---------------------------------------------------------------------------
(* Pure functions *)

\* binascii.a2b_base64 as base64.b64decode(s) calls it (validate=False):
\* characters outside the alphabet are skipped, padding ends the data once
\* the quad holds two or more characters and the padding completes it, and
\* the data must not end inside a quad.
RECURSIVE A2bBase64(_, _, _, _, _)
A2bBase64(s, i, quad_pos, pads, out) ==
  IF i > Len(s)
  THEN IF quad_pos # 0 THEN [ok |-> FALSE, bytes |-> <<>>]
                       ELSE [ok |-> TRUE, bytes |-> out]
  ELSE IF s[i] = PadChar
  THEN IF quad_pos >= 2 /\ quad_pos + pads + 1 >= 4
       THEN [ok |-> TRUE, bytes |-> out]
       ELSE A2bBase64(s, i + 1, quad_pos,
                      IF quad_pos >= 2 THEN pads + 1 ELSE pads, out)
  ELSE IF s[i] \notin DataChars
  THEN A2bBase64(s, i + 1, quad_pos, pads, out)
  ELSE A2bBase64(s, i + 1, (quad_pos + 1) % 4, 0, Append(out, s[i]))

b64decode(s) == A2bBase64(s, 1, 0, 0, <<>>)

\* Image.open(io.BytesIO(img_bytes)) and np.array(img) succeed on the encoded
\* images and raise on everything else (b"" included).
ImageOpens(img_bytes) == Len(img_bytes) >= 4 /\ img_bytes[1] = "J"

\* RFC 4648: only alphabet characters, a multiple of four of them, with at
\* most two padding characters, at the very end.
WellFormedBase64(s) ==
  /\ Len(s) % 4 = 0
  /\ \A i \in 1..Len(s) :
       \/ s[i] \in DataChars
       \/ /\ s[i] = PadChar
          /\ i >= Len(s) - 1
          /\ \A j \in i..Len(s) : s[j] = PadChar

\* deque(maxlen=30).append(x)
DequeAppend(ring, x) ==
  IF Len(ring) >= RingCapacity
  THEN Append(Tail(ring), x)
  ELSE Append(ring, x)

\* deepface_analyze(frame): a fixed result stamped with the current time
deepface_analyze(t) == [age |-> 30, timestamp |-> t]

---------------------------------------------------------------------------
(* State *)

VARIABLES
  active_streams,   \* stream_id -> [last_frame, analysis]        (line 117)
  stream_frames,    \* stream_id -> deque of frames               (line 118)
  stream_lock,      \* "free", or the thread that holds the lock  (line 119)
  loop,             \* the handler the event loop is running
  response,         \* the response the event loop sent last
  viewer,           \* per viewer: the generator's frame (locals and position)
  emitted,          \* per viewer: the chunks yielded, in order, with their time
  now,              \* time.time()
  nRequests,        \* history: ingest and read requests the event loop has started
  published,        \* history: per stream, the frames appended, in order
  last_publish,     \* history: per stream, the clock and analysis of the last append
  reading           \* upload_frame coroutines suspended at "await frame.read()"

vars == << active_streams, stream_frames, stream_lock, loop, response, viewer,
           emitted, now, nRequests, published, last_publish, reading >>

store == << active_streams, stream_frames >>

NoAnalysis == [age |-> 0, timestamp |-> 0]

NoListing == [s \in {} |-> [last_frame |-> 0, active_since |-> 0]]

IdleLoop ==
  [pc |-> "idle", entry |-> "none", stream_id |-> "none",
   key |-> "none",               \* the X-API-Key the handler's dependency checked
   frame |-> <<>>, img_bytes |-> <<>>, analysis |-> NoAnalysis,
   current_time |-> 0]

NoResponse ==
  [op |-> "none", stream_id |-> "none", key |-> "none", frame |-> <<>>,
   status |-> 0, tag |-> "none", analysis_flag |-> "none",
   analysis |-> NoAnalysis, listing |-> NoListing, current_time |-> 0]

NoFrame == [bytes |-> <<>>, seq |-> 0]

ViewerOff ==
  [pc |-> "off", stream_id |-> "none", frame_data |-> NoFrame,
   last_frame_time |-> 0, wake |-> 0,
   open |-> FALSE,               \* the client's connection is open
   last_yield |-> 0,             \* history: when the last chunk was yielded
   connected_empty |-> FALSE,    \* history: no frame published at connect
   saw_empty |-> FALSE]          \* history: line 166 found the ring empty

Init ==
  /\ active_streams = [s \in {} |-> [last_frame |-> 0, analysis |-> NoAnalysis]]
  /\ stream_frames = [s \in {} |-> <<>>]
  /\ stream_lock = "free"
  /\ loop = IdleLoop
  /\ response = NoResponse
  /\ viewer = [v \in Viewers |-> ViewerOff]
  /\ emitted = [v \in Viewers |-> <<>>]
  /\ now = Epoch
  /\ nRequests = 0
  /\ published = [s \in StreamIds |-> <<>>]
  /\ last_publish = [s \in StreamIds |-> [at |-> 0, analysis |-> NoAnalysis]]
  /\ reading = {}

\* d[k] = v, creating the key when it is absent
DictSet(d, k, v) == [x \in DOMAIN d \cup {k} |-> IF x = k THEN v ELSE d[x]]

\* the response sent: the fields of r, the others blank
Respond(r) == response' = r @@ NoResponse

---------------------------------------------------------------------------
(* The event loop: ingest handlers *)

\* verify_raspi_api_key
verify_raspi_api_key(x_api_key) == x_api_key = RASPI_API_KEY

\* A handler whose inner failure reaches the outer except clause.
JsonSoftFailureRaises ==
  [status |-> 400, tag |-> "Invalid image data", analysis_flag |-> "none"]

\* What receive_stream_frame answers when the inner try raises: it prints,
\* falls out of both try blocks and returns {"status": "received"}.
JsonSoftFailure ==
  [status |-> 200, tag |-> "received", analysis_flag |-> "none"]

\* What upload_frame answers when the inner try raises.
UploadSoftFailure ==
  [status |-> 200, tag |-> "received", analysis_flag |-> "failed"]

\* Lines 1107-1116 / 1244-1253 run only when Image.open, np.array and
\* deepface_analyze have all returned: the frame goes on to be published.
ReachesPublish(img_bytes) == ImageOpens(img_bytes)

\* POST /api/raspi/stream-frame arrives: the key dependency, then lines
\* 1090-1101 (b64decode, Image.open, np.array).
JsonArrive(s, key, frame) ==
  /\ loop.pc = "idle"
  /\ nRequests' = nRequests + 1
  /\ LET req == [op |-> "json", stream_id |-> s, key |-> key, frame |-> frame]
         dec == b64decode(frame)
     IN  IF ~verify_raspi_api_key(key)
         THEN /\ Respond(
                         [status |-> 401, tag |-> "Invalid API Key"] @@ req)
              /\ UNCHANGED loop
         ELSE IF ~dec.ok
         THEN /\ Respond(
                         [status |-> 400, tag |-> "Invalid image data"] @@ req)
              /\ UNCHANGED loop
         ELSE IF ~ReachesPublish(dec.bytes)
         THEN /\ Respond(JsonSoftFailure @@ req)
              /\ UNCHANGED loop
         ELSE /\ loop' = [IdleLoop EXCEPT !.pc = "analyze", !.entry = "json",
                            !.stream_id = s, !.key = key, !.frame = frame,
                            !.img_bytes = dec.bytes]
              /\ UNCHANGED response
  /\ UNCHANGED << active_streams, stream_frames, stream_lock, viewer, emitted,
                  now, published, last_publish, reading >>

\* POST /api/raspi/upload_frame arrives (no key dependency): lines 1232-1238
\* (frame.read, Image.open, np.array).
UploadArrive(s, file) ==
  /\ loop.pc = "idle"
  /\ nRequests' = nRequests + 1
  /\ LET req == [op |-> "upload", stream_id |-> s, frame |-> file]
     IN  IF ~ReachesPublish(file)
         THEN /\ Respond(UploadSoftFailure @@ req)
              /\ UNCHANGED loop
         ELSE /\ loop' = [IdleLoop EXCEPT !.pc = "analyze", !.entry = "upload",
                            !.stream_id = s, !.frame = file, !.img_bytes = file]
              /\ UNCHANGED response
  /\ UNCHANGED << active_streams, stream_frames, stream_lock, viewer, emitted,
                  now, published, last_publish, reading >>

\* POST /api/raspi/upload_frame arrives and "await frame.read()" (line 1232)
\* suspends the coroutine: the read is handed to a worker thread (a file part
\* spooled to disk; every file part where UploadFile.read always goes through
\* the thread pool) and the event loop goes on to other requests.
UploadSuspend(s, file) ==
  /\ loop.pc = "idle"
  /\ nRequests' = nRequests + 1
  /\ reading' = reading \cup {[stream_id |-> s, file |-> file, n |-> nRequests + 1]}
  /\ UNCHANGED << active_streams, stream_frames, stream_lock, loop, response,
                  viewer, emitted, now, published, last_publish >>

\* The read of a suspended upload_frame has returned and the event loop
\* resumes the coroutine: lines 1235-1238, as in UploadArrive.  The event loop
\* resumes the coroutines in the order their reads finish, which is any order.
UploadResume ==
  /\ loop.pc = "idle"
  /\ \E r \in reading :
       /\ reading' = reading \ {r}
       /\ LET req == [op |-> "upload", stream_id |-> r.stream_id, frame |-> r.file]
          IN  IF ~ReachesPublish(r.file)
              THEN /\ Respond(UploadSoftFailure @@ req)
                   /\ UNCHANGED loop
              ELSE /\ loop' = [IdleLoop EXCEPT !.pc = "analyze",
                                 !.entry = "upload", !.stream_id = r.stream_id,
                                 !.frame = r.file, !.img_bytes = r.file]
                   /\ UNCHANGED response
  /\ UNCHANGED << active_streams, stream_frames, stream_lock, viewer, emitted,
                  now, nRequests, published, last_publish >>

\* A handler that takes the lock before it runs the analysis.
AnalyzeUnderLock ==
  /\ loop.pc = "analyze"
  /\ stream_lock = "free"
  /\ stream_lock' = "loop"
  /\ loop' = [loop EXCEPT !.pc = "acquire", !.analysis = deepface_analyze(now)]
  /\ UNCHANGED << active_streams, stream_frames, response, viewer, emitted, now,
                  nRequests, published, last_publish, reading >>

\* analysis = deepface_analyze(frame_array)   (lines 1104, 1241)
Analyze ==
  /\ loop.pc = "analyze"
  /\ loop' = [loop EXCEPT !.pc = "acquire", !.analysis = deepface_analyze(now)]
  /\ UNCHANGED << active_streams, stream_frames, stream_lock, response, viewer,
                  emitted, now, nRequests, published, last_publish, reading >>

\* A publish that goes on to write without taking the lock.
IngestAcquireNoLock ==
  /\ loop.pc = "acquire"
  /\ loop' = [loop EXCEPT !.pc = "set_active"]
  /\ UNCHANGED << active_streams, stream_frames, stream_lock, response, viewer,
                  emitted, now, nRequests, published, last_publish, reading >>

\* with stream_lock:   (lines 1107, 1244): blocks until the lock is free
IngestAcquire ==
  /\ loop.pc = "acquire"
  /\ stream_lock = "free"
  /\ stream_lock' = "loop"
  /\ loop' = [loop EXCEPT !.pc = "set_active"]
  /\ UNCHANGED << active_streams, stream_frames, response, viewer, emitted, now,
                  nRequests, published, last_publish, reading >>

\* A publish that stores a timestamp sent by the client instead of the
\* server's clock, from a client whose clock runs backwards.
SetActiveClientTime ==
  /\ loop.pc = "set_active"
  /\ active_streams' = DictSet(active_streams, loop.stream_id,
                               [last_frame |-> now - Len(published[loop.stream_id]),
                                analysis |-> loop.analysis])
  /\ loop' = [loop EXCEPT !.pc = "append"]
  /\ UNCHANGED << stream_frames, stream_lock, response, viewer, emitted, now,
                  nRequests, published, last_publish, reading >>

\* active_streams[stream_id] = {"last_frame": time.time(), "analysis": analysis}
SetActive ==
  /\ loop.pc = "set_active"
  /\ active_streams' = DictSet(active_streams, loop.stream_id,
                               [last_frame |-> now, analysis |-> loop.analysis])
  /\ loop' = [loop EXCEPT !.pc = "append"]
  /\ UNCHANGED << stream_frames, stream_lock, response, viewer, emitted, now,
                  nRequests, published, last_publish, reading >>

\* A publish that appends only to a ring that exists already.
RingAppendIfKnown(frames, s, x) ==
  IF s \in DOMAIN frames THEN DictSet(frames, s, DequeAppend(frames[s], x))
  ELSE frames

\* The ring after lines 1114-1116 / 1251-1253.
RingAfterPublish(frames, s, x) ==
  DictSet(frames, s,
          DequeAppend(IF s \in DOMAIN frames THEN frames[s] ELSE <<>>, x))

\* Lines 1114-1116 / 1251-1253, the end of the with block and the return.
AppendFrame ==
  /\ loop.pc = "append"
  /\ LET s == loop.stream_id
         x == [bytes |-> loop.img_bytes, seq |-> Len(published[s]) + 1]
     IN  /\ stream_frames' = RingAfterPublish(stream_frames, s, x)
         /\ published' = [published EXCEPT ![s] = Append(@, x)]
         /\ last_publish' = [last_publish EXCEPT ![s] =
                               [at |-> active_streams[s].last_frame,
                                analysis |-> loop.analysis]]
         /\ Respond(
                    [op |-> loop.entry, stream_id |-> s, frame |-> loop.frame,
                     status |-> 200, tag |-> "received",
                     analysis_flag |->
                       IF loop.entry = "upload" THEN "success" ELSE "none"])
  /\ stream_lock' = "free"
  /\ loop' = IdleLoop
  /\ UNCHANGED << active_streams, viewer, emitted, now, nRequests, reading >>

---------------------------------------------------------------------------
(* The event loop: listing and analysis handlers *)

\* A window that still admits a stream whose last frame is exactly 30 s old.
IsActiveInclusive(current_time, last_frame) ==
  current_time - last_frame <= LivenessWindow

\* "if current_time - stream_data["last_frame"] < 30"
IsActive(current_time, last_frame) == current_time - last_frame < LivenessWindow

\* The dict list_active_streams builds under the lock (lines 1141-1148).
ActiveListing(current_time, streams) ==
  [s \in {x \in DOMAIN streams : IsActive(current_time, streams[x].last_frame)}
     |-> [last_frame |-> streams[s].last_frame,
          active_since |-> current_time - streams[s].last_frame]]

\* GET /api/streams arrives: result = {}; current_time = time.time()
ListArrive ==
  /\ loop.pc = "idle"
  /\ nRequests' = nRequests + 1
  /\ loop' = [IdleLoop EXCEPT !.pc = "list", !.entry = "list",
                              !.current_time = now]
  /\ UNCHANGED << active_streams, stream_frames, stream_lock, response, viewer,
                  emitted, now, published, last_publish, reading >>

\* with stream_lock: ... return result   (lines 1141-1150)
ListRead ==
  /\ loop.pc = "list"
  /\ stream_lock = "free"
  /\ Respond(
             [op |-> "list", status |-> 200, tag |-> "listing",
              listing |-> ActiveListing(loop.current_time, active_streams),
              current_time |-> loop.current_time])
  /\ loop' = IdleLoop
  /\ UNCHANGED << active_streams, stream_frames, stream_lock, viewer, emitted,
                  now, nRequests, published, last_publish, reading >>

\* A lookup that applies the liveness window, as the listing does.
StreamKnownAndActive(s, streams) ==
  s \in DOMAIN streams /\ now - streams[s].last_frame < LivenessWindow

\* Whether get_stream_feed finds the stream (line 1166).
StreamKnown(s, streams) == s \in DOMAIN streams

\* GET /api/stream/{stream_id}: get_stream_feed (lines 1166-1171), no lock
GetAnalysis(s) ==
  /\ loop.pc = "idle"
  /\ nRequests' = nRequests + 1
  /\ IF StreamKnown(s, active_streams)
     THEN Respond(
                  [op |-> "get", stream_id |-> s, status |-> 200,
                   tag |-> "analysis", analysis |-> active_streams[s].analysis])
     ELSE Respond(
                  [op |-> "get", stream_id |-> s, status |-> 404,
                   tag |-> "Stream not found or inactive"])
  /\ UNCHANGED << active_streams, stream_frames, stream_lock, loop, viewer,
                  emitted, now, published, last_publish, reading >>

---------------------------------------------------------------------------
(* The event loop: trigger-roast *)

\* bool(x) of an optional string
Truthy(x) == x \notin {None, ""}

\* Line 927:
\*   voice_id = voice_id or tts_format.voice_id if tts_format else ELEVENLABS_VOICE_ID
\* which Python reads as
\*   (voice_id or tts_format.voice_id) if tts_format else ELEVENLABS_VOICE_ID
SelectVoice(voice_id, tts_format) ==
  IF tts_format.given
  THEN IF Truthy(voice_id) THEN voice_id ELSE tts_format.voice_id
  ELSE ELEVENLABS_VOICE_ID

\* Line 926: audio_format = tts_format.format if tts_format else "mp3"
SelectFormat(tts_format) == IF tts_format.given THEN tts_format.format ELSE "mp3"

\* POST /api/raspi/trigger-roast (lines 901-1070): the key dependency, the
\* voice and the format, the checks of the body and of the database, the
\* roast text, and text_to_speech.convert with the selected voice.
TriggerRoast(key, request, tts_format, outcome) ==
  /\ loop.pc = "idle"
  /\ nRequests' = nRequests + 1
  /\ LET voice_id == SelectVoice(request.voice_id, tts_format)
         audio_format == SelectFormat(tts_format)
         req == [op |-> "roast", key |-> key, request |-> request,
                 tts_format |-> tts_format, tts_called |-> FALSE,
                 tts_voice_id |-> None, audio_format |-> audio_format]
     IN  IF ~verify_raspi_api_key(key)
         THEN Respond([status |-> 401, tag |-> "Invalid API Key"] @@ req)
         ELSE IF ~Truthy(request.user_id) \/ ~Truthy(request.name)
         THEN Respond([status |-> 400,
                       tag |-> "user_id and name are required"] @@ req)
         ELSE IF outcome = "no_user"
         THEN Respond([status |-> 404, tag |-> "User not found"] @@ req)
         ELSE IF outcome = "no_configs"
         THEN Respond([status |-> 404,
                       tag |-> "No roast configurations found for this user"]
                        @@ req)
         ELSE IF outcome = "llm_error"
         THEN Respond([status |-> 500, tag |-> "Error generating roast"] @@ req)
         ELSE IF outcome = "tts_error"
         THEN Respond([status |-> 200, tag |-> "TTS generation failed",
                       tts_called |-> TRUE, tts_voice_id |-> voice_id] @@ req)
         ELSE Respond([status |-> 200, tag |-> "audio",
                       tts_called |-> TRUE, tts_voice_id |-> voice_id] @@ req)
  /\ UNCHANGED << active_streams, stream_frames, stream_lock, loop, viewer,
                  emitted, now, published, last_publish, reading >>

---------------------------------------------------------------------------
(* Viewers: get_public_video_stream and stream_frames_generator *)

\* the chunk yielded at line 172
BlankChunk == [kind |-> "blank", frame |-> NoFrame]

\* A generator that yields the blank frame again in its loop.
FrameChunkBlank(frame_data) == [kind |-> "blank", frame |-> NoFrame]

\* the chunk yielded at line 192
FrameChunk(frame_data) == [kind |-> "frame", frame |-> frame_data]

\* GET /api/public-stream/{stream_id}/{api_key}: the handler checks the key
\* and hands the generator, not yet started, to StreamingResponse.
Connect(v, s, key) ==
  /\ loop.pc = "idle"
  /\ viewer[v].pc = "off"
  /\ IF key # RASPI_API_KEY
     THEN /\ Respond(
                     [op |-> "view", stream_id |-> s, key |-> key,
                      status |-> 401, tag |-> "Invalid API Key"])
          /\ UNCHANGED viewer
     ELSE /\ Respond(
                     [op |-> "view", stream_id |-> s, key |-> key,
                      status |-> 200, tag |-> "stream"])
          /\ viewer' = [viewer EXCEPT ![v] =
                          [ViewerOff EXCEPT !.pc = "g162", !.stream_id = s,
                             !.open = TRUE,
                             !.connected_empty = (published[s] = <<>>)]]
  /\ UNCHANGED << active_streams, stream_frames, stream_lock, loop, emitted, now,
                  nRequests, published, last_publish, reading >>

\* if stream_id not in stream_frames:   (line 162, no lock)
GenCheckKnown(v) ==
  /\ viewer[v].pc = "g162"
  /\ viewer' = [viewer EXCEPT ![v].pc =
                  IF viewer[v].stream_id \notin DOMAIN stream_frames
                  THEN "g163" ELSE "g166"]
  /\ UNCHANGED << active_streams, stream_frames, stream_lock, loop, response,
                  emitted, now, nRequests, published, last_publish, reading >>

\* stream_frames[stream_id] = deque(maxlen=30)   (line 163, no lock)
GenCreateRing(v) ==
  /\ viewer[v].pc = "g163"
  /\ stream_frames' = DictSet(stream_frames, viewer[v].stream_id, <<>>)
  /\ viewer' = [viewer EXCEPT ![v].pc = "g166"]
  /\ UNCHANGED << active_streams, stream_lock, loop, response, emitted, now,
                  nRequests, published, last_publish, reading >>

\* Whether the generator serves the blank frame (line 166).
ServesBlank(ring) == Len(ring) = 0

\* if len(stream_frames[stream_id]) == 0: ... yield blank   (lines 166-175);
\* the generator is resumed after the yield of line 172 if the client is still
\* connected, and closed there if it is not.
GenBlank(v) ==
  /\ viewer[v].pc = "g166"
  /\ IF ServesBlank(stream_frames[viewer[v].stream_id])
     THEN /\ emitted' = [emitted EXCEPT ![v] = Append(@, BlankChunk)]
          /\ viewer' = [viewer EXCEPT
                          ![v].pc = IF viewer[v].open THEN "g178" ELSE "closed",
                          ![v].saw_empty = TRUE,
                          ![v].last_yield = now]
     ELSE /\ viewer' = [viewer EXCEPT ![v].pc = "g178"]
          /\ UNCHANGED emitted
  /\ UNCHANGED << active_streams, stream_frames, stream_lock, loop, response,
                  now, nRequests, published, last_publish, reading >>

\* while True: with stream_lock:   (lines 177-178)
GenAcquire(v) ==
  /\ viewer[v].pc = "g178"
  /\ stream_lock = "free"
  /\ stream_lock' = v
  /\ viewer' = [viewer EXCEPT ![v].pc = "g179"]
  /\ UNCHANGED << active_streams, stream_frames, loop, response, emitted, now,
                  nRequests, published, last_publish, reading >>

\* if len(stream_frames[stream_id]) == 0: time.sleep(0.1) begins (lines 179-181)
GenCheckEmpty(v) ==
  /\ viewer[v].pc = "g179"
  /\ IF Len(stream_frames[viewer[v].stream_id]) = 0
     THEN viewer' = [viewer EXCEPT ![v].pc = "g181", ![v].wake = now + IdleSleep]
     ELSE viewer' = [viewer EXCEPT ![v].pc = "g185"]
  /\ UNCHANGED << active_streams, stream_frames, stream_lock, loop, response,
                  emitted, now, nRequests, published, last_publish, reading >>

\* time.sleep(0.1) returns; continue leaves the with block   (lines 181-182)
GenIdleWake(v) ==
  /\ viewer[v].pc = "g181"
  /\ now >= viewer[v].wake
  /\ stream_lock' = "free"
  /\ viewer' = [viewer EXCEPT ![v].pc = "g178", ![v].wake = 0]
  /\ UNCHANGED << active_streams, stream_frames, loop, response, emitted, now,
                  nRequests, published, last_publish, reading >>

\* A generator that replays the ring, oldest frame first, one frame further
\* with every chunk it has sent.
GenGetFrameReplay(v) ==
  /\ viewer[v].pc = "g185"
  /\ LET ring == stream_frames[viewer[v].stream_id]
     IN  IF Len(ring) = 0
         THEN viewer' = [viewer EXCEPT ![v].pc = "raised"]
         ELSE viewer' = [viewer EXCEPT ![v].pc = "g187",
                           ![v].frame_data = ring[(Len(emitted[v]) % Len(ring)) + 1]]
  /\ stream_lock' = "free"
  /\ UNCHANGED << active_streams, stream_frames, loop, response, emitted, now,
                  nRequests, published, last_publish, reading >>

\* frame_data = stream_frames[stream_id][-1], end of the with block (line 185);
\* on an empty deque the index raises and the generator ends.
GenGetFrame(v) ==
  /\ viewer[v].pc = "g185"
  /\ LET ring == stream_frames[viewer[v].stream_id]
     IN  IF Len(ring) = 0
         THEN viewer' = [viewer EXCEPT ![v].pc = "raised"]
         ELSE viewer' = [viewer EXCEPT ![v].pc = "g187",
                                       ![v].frame_data = ring[Len(ring)]]
  /\ stream_lock' = "free"
  /\ UNCHANGED << active_streams, stream_frames, loop, response, emitted, now,
                  nRequests, published, last_publish, reading >>

\* How long the generator sleeps at line 189 (0: it does not).
RateLimitSleep(current_time, last_frame_time) ==
  IF current_time - last_frame_time < MinFrameInterval
  THEN MinFrameInterval - (current_time - last_frame_time)
  ELSE 0

\* current_time = time.time(); if ...: time.sleep(...) begins (lines 187-189)
GenRateLimit(v) ==
  /\ viewer[v].pc = "g187"
  /\ LET d == RateLimitSleep(now, viewer[v].last_frame_time)
     IN  viewer' = [viewer EXCEPT ![v].pc = IF d > 0 THEN "g189" ELSE "g192",
                                  ![v].wake = IF d > 0 THEN now + d ELSE 0]
  /\ UNCHANGED << active_streams, stream_frames, stream_lock, loop, response,
                  emitted, now, nRequests, published, last_publish, reading >>

\* time.sleep(min_frame_interval - ...) returns   (line 189)
GenRateWake(v) ==
  /\ viewer[v].pc = "g189"
  /\ now >= viewer[v].wake
  /\ viewer' = [viewer EXCEPT ![v].pc = "g192", ![v].wake = 0]
  /\ UNCHANGED << active_streams, stream_frames, stream_lock, loop, response,
                  emitted, now, nRequests, published, last_publish, reading >>

\* yield b"--frame..." + frame_data + b"\r\n"   (line 192)
GenYield(v) ==
  /\ viewer[v].pc = "g192"
  /\ Len(emitted[v]) < MaxEmit
  /\ emitted' = [emitted EXCEPT ![v] = Append(@, FrameChunk(viewer[v].frame_data))]
  /\ viewer' = [viewer EXCEPT ![v].pc = "g193", ![v].last_yield = now]
  /\ UNCHANGED << active_streams, stream_frames, stream_lock, loop, response,
                  now, nRequests, published, last_publish, reading >>

\* The generator is resumed, which the response does only while the client is
\* connected: last_frame_time = time.time()   (line 193)
GenResume(v) ==
  /\ viewer[v].pc = "g193"
  /\ viewer[v].open
  /\ viewer' = [viewer EXCEPT ![v].pc = "g178", ![v].last_frame_time = now]
  /\ UNCHANGED << active_streams, stream_frames, stream_lock, loop, response,
                  emitted, now, nRequests, published, last_publish, reading >>

\* The client of viewer v closes its connection.
Disconnect(v) ==
  /\ viewer[v].pc \notin {"off", "closed", "raised"}
  /\ viewer[v].open
  /\ viewer' = [viewer EXCEPT ![v].open = FALSE]
  /\ UNCHANGED << active_streams, stream_frames, stream_lock, loop, response,
                  emitted, now, nRequests, published, last_publish, reading >>

\* The generator of a disconnected viewer is closed.  A generator can be closed
\* only where it is suspended, at the yield of line 192: while it runs (the
\* idle loop of lines 177-182 included) its thread cannot be stopped.
GenClose(v) ==
  /\ viewer[v].pc = "g193"
  /\ ~viewer[v].open
  /\ viewer' = [viewer EXCEPT ![v].pc = "closed"]
  /\ UNCHANGED << active_streams, stream_frames, stream_lock, loop, response,
                  emitted, now, nRequests, published, last_publish, reading >>

---------------------------------------------------------------------------
(* The clock *)

\* time.time() advances by d, up to the model's horizon
Tick(d, horizon) ==
  /\ now + d <= Epoch + horizon
  /\ now' = now + d
  /\ UNCHANGED << active_streams, stream_frames, stream_lock, loop, response,
                  viewer, emitted, nRequests, published, last_publish, reading >>

\* The sleep of viewer v runs out (lines 181, 189).  A behaviour that never
\* ends has no bounded clock, so the specifications of the liveness claims
\* measure a sleep against its own deadline and leave the reading of the clock
\* where it is: their behaviours are those of a loop that finds, at line 188,
\* less than min_frame_interval gone since its last frame.
SleepElapses(v) ==
  /\ viewer[v].pc \in {"g181", "g189"}
  /\ viewer[v].wake > now
  /\ viewer' = [viewer EXCEPT ![v].wake = now]
  /\ UNCHANGED << active_streams, stream_frames, stream_lock, loop, response,
                  emitted, now, nRequests, published, last_publish, reading >>

---------------------------------------------------------------------------
(* The router: GET routes of the stream endpoints *)

\* A path parameter such as {stream_id}: it matches any one segment.
Param == "{}"

\* The GET routes of lines 1130-1194 in the order their decorators run, a path
\* being the sequence of its segments.
Routes ==
  << [path |-> <<"api", "streams">>, endpoint |-> "list_active_streams"],
     [path |-> <<"api", "stream", Param>>, endpoint |-> "get_stream_feed"],
     [path |-> <<"api", "stream", Param>>, endpoint |-> "get_video_stream"],
     [path |-> <<"api", "public-stream", Param, Param>>,
      endpoint |-> "get_public_video_stream"] >>

\* Whether the path of a request matches the path of a route.
Matches(path, url) ==
  /\ Len(path) = Len(url)
  /\ \A i \in 1..Len(path) : path[i] = Param \/ path[i] = url[i]

\* A router that lets a later registration replace an earlier one.
DispatchLast(url) ==
  LET hits == {i \in 1..Len(Routes) : Matches(Routes[i].path, url)}
  IN  IF hits = {} THEN "not_found"
      ELSE Routes[CHOOSE i \in hits : \A j \in hits : j <= i].endpoint

\* The endpoint a request is dispatched to: the router tries the routes in the
\* order of registration and takes the first one that matches.
Dispatch(url) ==
  LET hits == {i \in 1..Len(Routes) : Matches(Routes[i].path, url)}
  IN  IF hits = {} THEN "not_found"
      ELSE Routes[CHOOSE i \in hits : \A j \in hits : i <= j].endpoint

\* get_video_stream (lines 1175-1190): a StreamingResponse over
\* stream_frames_generator(stream_id), with no API key.
get_video_stream(v, s) ==
  /\ loop.pc = "idle"
  /\ viewer[v].pc = "off"
  /\ Respond([op |-> "video", stream_id |-> s, status |-> 200,
              tag |-> "stream"])
  /\ viewer' = [viewer EXCEPT ![v] =
                  [ViewerOff EXCEPT !.pc = "g162", !.stream_id = s,
                     !.open = TRUE,
                     !.connected_empty = (published[s] = <<>>)]]
  /\ UNCHANGED << active_streams, stream_frames, stream_lock, loop, emitted, now,
                  nRequests, published, last_publish, reading >>

\* No route matches: the router answers 404.
NotFound(url) ==
  /\ loop.pc = "idle"
  /\ nRequests' = nRequests + 1
  /\ Respond([op |-> "none", status |-> 404, tag |-> "Not Found"])
  /\ UNCHANGED << active_streams, stream_frames, stream_lock, loop, viewer,
                  emitted, now, published, last_publish, reading >>

\* A GET request for url from the client of viewer v runs the endpoint the
\* router dispatches it to.
Get(v, url) ==
  LET endpoint == Dispatch(url)
  IN  CASE endpoint = "list_active_streams" -> ListArrive
        [] endpoint = "get_stream_feed" -> GetAnalysis(url[3])
        [] endpoint = "get_video_stream" -> get_video_stream(v, url[3])
        [] endpoint = "get_public_video_stream" -> Connect(v, url[3], url[4])
        [] OTHER -> NotFound(url)

---------------------------------------------------------------------------
(* Specifications *)

\* JSON requests: every frame string under the right key, one under a wrong key
JsonRequests ==
  {[key |-> RASPI_API_KEY, frame |-> f] : f \in JsonFrames}
    \cup {[key |-> "wrong", frame |-> ImageA]}

Ingest(streams, requests, files) ==
  \/ \E s \in streams, r \in requests : JsonArrive(s, r.key, r.frame)
  \/ \E s \in streams, file \in files : UploadArrive(s, file)

IngestSteps == Analyze \/ IngestAcquire \/ SetActive \/ AppendFrame

Generator(v) ==
  \/ GenCheckKnown(v) \/ GenCreateRing(v) \/ GenBlank(v)
  \/ GenAcquire(v) \/ GenCheckEmpty(v) \/ GenIdleWake(v) \/ GenGetFrame(v)
  \/ GenRateLimit(v) \/ GenRateWake(v) \/ GenYield(v) \/ GenResume(v)

\* The generator of a viewer whose client takes the first chunk and no more:
\* it runs up to the yield of line 192 and waits there.
GeneratorToYield(v) ==
  \/ GenCheckKnown(v) \/ GenCreateRing(v) \/ GenBlank(v)
  \/ GenAcquire(v) \/ GenCheckEmpty(v) \/ GenIdleWake(v) \/ GenGetFrame(v)
  \/ GenRateLimit(v)

\* Both ingest entry points with every payload, the read handlers and one
\* viewer, on two streams; the clock moves in steps of one idle sleep.
Next ==
  \/ /\ nRequests < MaxRequests
     /\ \/ Ingest(StreamIds, JsonRequests, UploadFiles)
        \/ ListArrive
        \/ \E s \in StreamIds : GetAnalysis(s)
  \/ \E s \in StreamIds, key \in Keys : Connect("v1", s, key)
  \/ IngestSteps
  \/ ListRead
  \/ Generator("v1")
  \/ Tick(IdleSleep, MaxElapsed)

Spec == Init /\ [][Next]_vars

\* The registry across the liveness window: ingest, listing and analysis on
\* two streams, with one viewer of the second stream that waits at its yield
\* (the first stream is only ever ingested, the second may be only viewed).
\* The clock moves in steps of 1/30 s near the start and near the end of the
\* window, and jumps across it in between.
NextRegistry ==
  \/ /\ nRequests < RegistryRequests
     /\ \/ Ingest(StreamIds, {[key |-> RASPI_API_KEY, frame |-> ImageA]},
                  {ImageB, NotAnImage})
        \/ ListArrive
        \/ \E s \in StreamIds : GetAnalysis(s)
  \/ Connect("v1", "cam2", RASPI_API_KEY)
  \/ IngestSteps
  \/ ListRead
  \/ GeneratorToYield("v1")
  \/ /\ (now - Epoch) % (LivenessWindow - 1) < RegistrySlack
     /\ Tick(1, LivenessWindow + RegistrySlack)
  \/ Tick(LivenessWindow - 1, LivenessWindow + RegistrySlack)

SpecRegistry == Init /\ [][NextRegistry]_vars

\* One stream fed past the capacity of its ring through both entry points,
\* with one viewer whose generator runs up to its loop.
NextRing ==
  \/ /\ nRequests < RingCapacity + RingExtra
     /\ Ingest({"cam1"}, {[key |-> RASPI_API_KEY, frame |-> ImageA]}, {ImageA})
  \/ \E key \in Keys : Connect("v1", "cam1", key)
  \/ IngestSteps
  \/ GenCheckKnown("v1") \/ GenCreateRing("v1") \/ GenBlank("v1")

SpecRing == Init /\ [][NextRing]_vars

\* Two viewers, each on either stream, whose clients may disconnect, and
\* frames published for the first stream.
NextViewers ==
  \/ /\ nRequests < ViewersRequests
     /\ JsonArrive("cam1", RASPI_API_KEY, ImageA)
  \/ \E v \in Viewers, s \in StreamIds : Connect(v, s, RASPI_API_KEY)
  \/ IngestSteps
  \/ \E v \in Viewers : Generator(v)
  \/ \E v \in Viewers : Disconnect(v)
  \/ \E v \in Viewers : GenClose(v)
  \/ Tick(IdleSleep, MaxElapsed)

SpecViewers == Init /\ [][NextViewers]_vars

\* The frame of the request that arrives after n others in SpecOrder: the
\* first request carries ImageA, every later one ImageB.
OrderFrame(n) == IF n = 0 THEN ImageA ELSE ImageB

\* Ingest requests that arrive one after the other through either entry point,
\* the multipart one with a read that returns at once or that suspends.
NextOrder ==
  \/ /\ nRequests < OrderRequests
     /\ \E s \in StreamIds :
          \/ JsonArrive(s, RASPI_API_KEY, OrderFrame(nRequests))
          \/ UploadArrive(s, OrderFrame(nRequests))
          \/ UploadSuspend(s, OrderFrame(nRequests))
  \/ UploadResume
  \/ IngestSteps
  \/ Tick(IdleSleep, MaxElapsed)

SpecOrder == Init /\ [][NextOrder]_vars

\* One viewer, on either stream, whose client may disconnect, and frames
\* published for the first stream; sleeps run out (SleepElapses), the clock
\* reading stays.
NextLive ==
  \/ /\ nRequests < LiveRequests
     /\ JsonArrive("cam1", RASPI_API_KEY, ImageA)
  \/ \E s \in StreamIds : Connect("v1", s, RASPI_API_KEY)
  \/ IngestSteps
  \/ Generator("v1")
  \/ SleepElapses("v1")
  \/ Disconnect("v1")
  \/ GenClose("v1")

\* Weak fairness of the scheduler: the event loop thread and the viewer's
\* worker thread each take their next step if it stays possible, a sleep runs
\* out, and a suspended generator nobody will resume is closed.  Requests and
\* disconnects come when the clients send them, or never.
SpecLive ==
  /\ Init
  /\ [][NextLive]_vars
  /\ WF_vars(IngestSteps)
  /\ WF_vars(Generator("v1"))
  /\ WF_vars(SleepElapses("v1"))
  /\ WF_vars(GenClose("v1"))

\* Two viewers that stay connected, on either stream, and frames published
\* for the first stream; sleeps run out (SleepElapses), the clock reading
\* stays.
NextWatch ==
  \/ /\ nRequests < WatchRequests
     /\ JsonArrive("cam1", RASPI_API_KEY, ImageA)
  \/ \E v \in Viewers, s \in StreamIds : Connect(v, s, RASPI_API_KEY)
  \/ IngestSteps
  \/ \E v \in Viewers : Generator(v) \/ SleepElapses(v)

\* Fairness of the scheduler, with a lock that serves every thread that keeps
\* asking for it: the event loop thread takes its next step if it stays
\* possible, a sleep runs out, and a viewer's worker thread takes its next
\* step if that is possible again and again (strong fairness: a viewer that
\* waits for stream_lock gets it in the end, however often others take it).
SpecWatch ==
  /\ Init
  /\ [][NextWatch]_vars
  /\ WF_vars(IngestSteps)
  /\ \A v \in Viewers : SF_vars(Generator(v)) /\ WF_vars(SleepElapses(v))

\* trigger-roast requests with every body, tts_format and outcome
NextRoast ==
  /\ nRequests < RoastRequests
  /\ \E key \in Keys, request \in RoastBodies, tts_format \in TtsFormats,
        outcome \in RoastOutcomes :
       TriggerRoast(key, request, tts_format, outcome)

SpecRoast == Init /\ [][NextRoast]_vars

\* The paths GET requests ask for: the listing, a stream's path, the public
\* path of a stream with a key, and a path no route has.
Urls ==
  {<<"api", "streams">>, <<"api", "stream">>}
    \cup {<<"api", "stream", s>> : s \in StreamIds}
    \cup {<<"api", "public-stream", s, key>> : s \in StreamIds, key \in Keys}

\* GET requests through the router, next to frames published for the first
\* stream and the generator of one viewer; sleeps run out (SleepElapses).
NextRoutes ==
  \/ /\ nRequests < RoutesRequests
     /\ \/ JsonArrive("cam1", RASPI_API_KEY, ImageA)
        \/ \E url \in Urls : Get("v1", url)
  \/ IngestSteps
  \/ ListRead
  \/ Generator("v1")
  \/ SleepElapses("v1")

SpecRoutes == Init /\ [][NextRoutes]_vars

---------------------------------------------------------------------------
(* Vocabulary of the properties *)

\* The bytes a response's request carried once the transport encoding is
\* undone: base64 on the JSON entry point, none on the multipart one.
TransportBytes(r) ==
  IF r.op = "json" THEN b64decode(r.frame) ELSE [ok |-> TRUE, bytes |-> r.frame]

\* response answers an ingest request that passed the key check
IngestAnswered ==
  /\ response.op \in {"json", "upload"}
  /\ response.op = "json" => response.key = RASPI_API_KEY

\* response answers an ingest request whose transport bytes decoded and whose
\* image did not
SoftFailureAnswered ==
  /\ IngestAnswered
  /\ TransportBytes(response).ok
  /\ ~ImageOpens(TransportBytes(response).bytes)

\* this step sends the response to an ingest request
IngestResponds ==
  /\ response'.op \in {"json", "upload"}
  /\ \/ nRequests' = nRequests + 1 /\ loop'.pc = "idle"
     \/ loop.pc = "append" /\ loop'.pc = "idle"

\* in this step a JSON ingest request with frame string f passes the key check
JsonAccepted(f) ==
  /\ nRequests' = nRequests + 1
  /\ \/ loop'.pc = "analyze" /\ loop'.entry = "json" /\ loop'.frame = f
     \/ /\ loop'.pc = "idle"
        /\ response'.op = "json"
        /\ response'.key = RASPI_API_KEY
        /\ response'.frame = f

\* the last n elements of sequence q (all of them when it has fewer)
LastN(q, n) == SubSeq(q, IF Len(q) > n THEN Len(q) - n + 1 ELSE 1, Len(q))

\* this step sends the response of get_stream_feed for stream s
AnalysisAnswered(s) ==
  /\ nRequests' = nRequests + 1
  /\ loop'.pc = "idle"
  /\ response'.op = "get"
  /\ response'.stream_id = s

\* the generator of viewer v has run line 162 (and 163 when it applied)
PastCreate(v) == viewer[v].pc \notin {"off", "g162", "g163"}

\* the chunks of kind k among the first n that viewer v emitted
ChunksOfKind(v, k, n) == {i \in 1..n : emitted[v][i].kind = k}

---------------------------------------------------------------------------
(* C1: the ring of a stream never holds more than 30 frames, and once more  *)
(* than 30 frames have been published for the stream it holds exactly the   *)
(* 30 published last, in publish order.                                     *)
C1_RingHoldsLast30 ==
  \A s \in DOMAIN stream_frames :
    /\ Len(stream_frames[s]) <= RingCapacity
    /\ Len(published[s]) > RingCapacity
         => stream_frames[s] = LastN(published[s], RingCapacity)

(* C2: when an ingest request's transport bytes decode but the image does   *)
(* not, the raw bytes are still appended to the stream's ring and are the   *)
(* latest frame of that stream when the request is answered.                *)
C2_SoftFailureStillPublishes ==
  [][ (IngestResponds /\ SoftFailureAnswered')
        => /\ response'.stream_id \in DOMAIN stream_frames'
           /\ Len(stream_frames'[response'.stream_id]) > 0
           /\ stream_frames'[response'.stream_id]
                [Len(stream_frames'[response'.stream_id])].bytes
                = TransportBytes(response').bytes ]_vars

(* C3: a JSON ingest request whose frame string is malformed base64 is      *)
(* rejected with status 400 in the step it arrives, and the store is        *)
(* unchanged.                                                               *)
C3_MalformedBase64Rejected ==
  [][ \A f \in JsonFrames :
        (JsonAccepted(f) /\ ~WellFormedBase64(f))
          => /\ loop'.pc = "idle"
             /\ response'.status = 400
             /\ UNCHANGED store ]_vars

(* C4: an ingest request with an empty payload (an empty base64 string, an  *)
(* empty file part) is answered with status 400, not with "received".       *)
C4_EmptyPayloadRejected ==
  (IngestAnswered /\ response.frame = <<>>)
    => response.status = 400 /\ response.tag # "received"

(* C5: an ingest request whose transport bytes decode and whose image does  *)
(* not is answered with status 200 and "received" on both entry points.     *)
C5_SoftFailureAcknowledged ==
  SoftFailureAnswered => response.status = 200 /\ response.tag = "received"

\* C5 witness: a JSON request carrying bytes that are no image was answered
C5_Witness ==
  /\ SoftFailureAnswered
  /\ response.op = "json"
  /\ response.frame = NotAnImage

(* C6: the listing computed for query time current_time has an entry for a  *)
(* stream if and only if a frame has been published for it and              *)
(* current_time minus the clock of its last publish is less than 30 s; the  *)
(* entry's active_since is that difference.                                 *)
C6_ListActiveWindow ==
  [][ (loop.pc = "list" /\ loop'.pc = "idle")
        => /\ response'.op = "list"
           /\ DOMAIN response'.listing
                = {s \in StreamIds :
                     /\ published[s] # <<>>
                     /\ response'.current_time - last_publish[s].at
                          < LivenessWindow}
           /\ \A s \in DOMAIN response'.listing :
                /\ response'.listing[s].last_frame = last_publish[s].at
                /\ response'.listing[s].active_since
                     = response'.current_time - last_publish[s].at ]_vars

\* C6 witness: a listing that leaves out a stream whose last frame is exactly
\* 30 s old
C6_Witness ==
  /\ response.op = "list"
  /\ \E s \in StreamIds :
       /\ published[s] # <<>>
       /\ response.current_time - last_publish[s].at = LivenessWindow
       /\ s \notin DOMAIN response.listing

(* C7: get_stream_feed answers with the analysis of the stream's last       *)
(* publish if a frame has ever been published for the stream, however long  *)
(* ago, and with 404 otherwise (a stream only a viewer connected to         *)
(* included).                                                               *)
C7_AnalysisIffIngested ==
  [][ \A s \in StreamIds :
        AnalysisAnswered(s)
          => IF published[s] # <<>>
             THEN /\ response'.status = 200
                  /\ response'.analysis = last_publish[s].analysis
             ELSE response'.status = 404 ]_vars

\* C7 witness: the analysis of a stream whose last frame is older than the
\* liveness window was served
C7_Witness ==
  /\ response.op = "get"
  /\ response.status = 200
  /\ response.stream_id \in StreamIds
  /\ published[response.stream_id] # <<>>
  /\ response.analysis = last_publish[response.stream_id].analysis
  /\ now - last_publish[response.stream_id].at >= LivenessWindow

C9_BlankOnceWhenConnectedEmpty ==
  \A v \in Viewers :
    (viewer[v].connected_empty /\ viewer[v].pc \notin {"off", "g162", "g163", "g166"})
      => /\ ChunksOfKind(v, "blank", Len(emitted[v])) = {1}
         /\ \A i \in 2..Len(emitted[v]) :
              /\ emitted[v][i].frame.seq \in 1..Len(published[viewer[v].stream_id])
              /\ emitted[v][i].frame
                   = published[viewer[v].stream_id][emitted[v][i].frame.seq]

(* C9 amended: a viewer whose generator finds the ring empty at line 166    *)
(* emits exactly one blank chunk, as its first chunk, and after it only     *)
(* frames that have been published for that stream; a viewer whose          *)
(* generator finds a frame there emits no blank chunk at all.               *)
C9_BlankOnceWhenRingEmpty ==
  \A v \in Viewers :
    viewer[v].pc \notin {"off", "g162", "g163", "g166"}
      => /\ ChunksOfKind(v, "blank", Len(emitted[v]))
              = IF viewer[v].saw_empty THEN {1} ELSE {}
         /\ \A i \in ChunksOfKind(v, "frame", Len(emitted[v])) :
              /\ emitted[v][i].frame.seq \in 1..Len(published[viewer[v].stream_id])
              /\ emitted[v][i].frame
                   = published[viewer[v].stream_id][emitted[v][i].frame.seq]

\* C9 witness: a viewer that found the ring empty has emitted the blank chunk
\* and then, a frame having been published, that frame
C9_Witness ==
  \E v \in Viewers :
    /\ viewer[v].saw_empty
    /\ Len(emitted[v]) >= 2
    /\ emitted[v][1].kind = "blank"
    /\ emitted[v][2].kind = "frame"

(* C10: any two consecutive chunks of one viewer are yielded at least       *)
(* min_frame_interval (1/15 s) apart.                                       *)
C10_EmissionsSpaced ==
  [][ \A v \in Viewers :
        (emitted'[v] # emitted[v] /\ emitted[v] # <<>>)
          => now - viewer[v].last_yield >= MinFrameInterval ]_vars

(* C11: no viewer's generator is asleep, in the idle wait of line 181 or in  *)
(* the rate-limit wait of line 189, while it holds stream_lock.             *)
C11_NoSleepHoldingLock ==
  \A v \in Viewers :
    viewer[v].pc \in {"g181", "g189"} => stream_lock # v

\* the ring of the stream viewer v reads exists and holds a frame
FrameAvailable(v) ==
  /\ viewer[v].stream_id \in DOMAIN stream_frames
  /\ Len(stream_frames[viewer[v].stream_id]) > 0

(* C12: a viewer that is about to read the latest frame of a stream that    *)
(* has one (it stands at line 178) is never held up by another viewer that  *)
(* is asleep: whoever holds the lock it needs is running.                   *)
C12_NoViewerBlocksAnother ==
  \A v, w \in Viewers :
    (v # w /\ viewer[w].pc = "g178" /\ FrameAvailable(w))
      => ~(stream_lock = v /\ viewer[v].pc \in {"g181", "g189"})

\* a publish for stream s has written active_streams[s] and has not yet
\* appended its frame
MidPublish(s) == loop.pc = "append" /\ loop.stream_id = s

\* this step is a read of the state of stream s by a reader: the listing
\* (lines 1141-1148), get_stream_feed (lines 1166-1171), or a generator's look
\* at the ring inside its loop (lines 179, 185)
ReaderReads(s) ==
  \/ loop.pc = "list" /\ loop'.pc = "idle"
  \/ AnalysisAnswered(s)
  \/ \E v \in Viewers :
       /\ viewer[v].stream_id = s
       /\ viewer[v].pc \in {"g179", "g185"}
       /\ viewer'[v].pc # viewer[v].pc

C14_ArrivalOrderKept ==
  \A s \in DOMAIN stream_frames :
    \A i, j \in 1..Len(stream_frames[s]) :
      (stream_frames[s][i].bytes = ImageA /\ stream_frames[s][j].bytes = ImageB)
        => i < j

(* C15: the frames a viewer emits are in publish order: a frame it emits    *)
(* was never published before a frame it emitted earlier (frames may be     *)
(* skipped or emitted again).                                               *)
C15_EmittedInPublishOrder ==
  \A v \in Viewers :
    \A i, j \in ChunksOfKind(v, "frame", Len(emitted[v])) :
      i < j => emitted[v][i].frame.seq <= emitted[v][j].frame.seq

\* C15 witness: a viewer has emitted the first frame published for its stream
\* and after it the second
C15_Witness ==
  \E v \in Viewers :
    \E i, j \in ChunksOfKind(v, "frame", Len(emitted[v])) :
      /\ i < j
      /\ emitted[v][i].frame.seq = 1
      /\ emitted[v][j].frame.seq = 2

\* the generator of viewer v has started and its client has disconnected
Disconnected(v) ==
  viewer[v].pc \notin {"off", "closed", "raised"} /\ ~viewer[v].open

\* the generator of viewer v runs no more
Stopped(v) == viewer[v].pc \in {"closed", "raised"}

(* C16: after a viewer disconnects, its generator eventually stops running, *)
(* whatever the generator was doing when the client left.  (A viewer that   *)
(* has sent MaxEmit chunks is at the end of its behaviour in the model and  *)
(* is left out.)                                                            *)
C16_DisconnectedViewerStops ==
  \A v \in Viewers :
    (Disconnected(v) /\ Len(emitted[v]) < MaxEmit) ~> Stopped(v)

\* the event loop is handling an ingest request whose image has decoded
Publishing == loop.pc \in {"analyze", "acquire", "set_active", "append"}

(* C20: an ingest request whose image has decoded eventually completes its  *)
(* publish (its frame is appended and the handler returns), under weak      *)
(* fairness, whatever the viewers do.                                       *)
C20_PublishCompletes == Publishing ~> (loop.pc = "idle")

\* this step is a write to the store by the handler of an ingest request
\* (lines 1108-1116, 1245-1253)
IngestWrites ==
  /\ loop.pc \in {"set_active", "append"}
  /\ loop'.pc # loop.pc
  /\ store' # store

(* C17: an ingest handler writes to the store only for a request whose      *)
(* X-API-Key was checked and is the shared secret; loop.key is the key the  *)
(* handler's dependency checked, "none" when nothing checked one.           *)
C17_IngestWritesNeedKey ==
  [][ IngestWrites => loop.key = RASPI_API_KEY ]_vars

(* C18: when the body of a trigger-roast request gives a voice_id, that     *)
(* voice_id is the one passed to text_to_speech.convert, with or without a  *)
(* tts_format.                                                              *)
C18_BodyVoiceUsed ==
  (response.op = "roast" /\ response.tts_called
     /\ Truthy(response.request.voice_id))
    => response.tts_voice_id = response.request.voice_id

(* C19: the last_frame of a stream's entry never decreases, and the entry   *)
(* is never removed, whatever the order in which ingest requests arrive,    *)
(* are suspended and are resumed (the server's clock, which Tick advances,  *)
(* does not run backwards).                                                 *)
C19_LastFrameMonotone ==
  [][ \A s \in DOMAIN active_streams :
        /\ s \in DOMAIN active_streams'
        /\ active_streams'[s].last_frame >= active_streams[s].last_frame ]_vars

\* C19 witness: a second publish for a stream has stamped the entry with a
\* later time than that of the first publish
C19_Witness ==
  \E s \in DOMAIN active_streams :
    /\ MidPublish(s)
    /\ Len(published[s]) = 1
    /\ active_streams[s].last_frame > last_publish[s].at

(* C21: the event loop holds stream_lock exactly while a handler is in its  *)
(* final update (the write of active_streams and the append to the ring):   *)
(* never between requests, where an arriving request is decoded, never      *)
(* during the analysis, and never while it waits for the lock.              *)
C21_LockOnlyForPublish ==
  stream_lock = "loop" <=> loop.pc \in {"set_active", "append"}

\* C21 witness: a handler runs the analysis of a decoded image while a viewer
\* holds the lock
C21_Witness ==
  /\ loop.pc = "analyze"
  /\ ImageOpens(loop.img_bytes)
  /\ stream_lock \in Viewers

\* a generator starts in this step
GeneratorStarts(v) == viewer[v].pc = "off" /\ viewer'[v].pc # "off"

(* C22: a GET of /api/stream/{stream_id} is dispatched to get_stream_feed,  *)
(* the first of the two handlers registered on that path; get_video_stream  *)
(* never answers, and every step that starts the MJPEG generator is the     *)
(* answer of the public-stream handler to a request with the API key in     *)
(* its URL.                                                                 *)
C22_OnlyPublicPathStartsGenerator ==
  [][ /\ \A s \in StreamIds :
           Dispatch(<<"api", "stream", s>>) = "get_stream_feed"
      /\ response'.op # "video"
      /\ \A v \in Viewers :
           GeneratorStarts(v) =>
             /\ response'.op = "view"
             /\ response'.key = RASPI_API_KEY
             /\ response'.status = 200 ]_vars

\* C22 witness: a request to a stream's path was answered with the stored
\* analysis and no generator runs
C22_Witness ==
  /\ response.op = "get"
  /\ response.status = 200
  /\ response.analysis = active_streams[response.stream_id].analysis
  /\ \A v \in Viewers : viewer[v].pc = "off"

\* frame i of those published for stream s is in the ring of s
InRing(s, i) ==
  /\ s \in DOMAIN stream_frames
  /\ \E j \in 1..Len(stream_frames[s]) : stream_frames[s][j] = published[s][i]

(* C23: a published frame stays in the ring of its stream until 30 later    *)
(* frames have been published for that stream, whatever a connecting        *)
(* viewer does in between.                                                  *)
C23_PublishedFrameStays ==
  \A s \in StreamIds :
    \A i \in 1..Len(published[s]) :
      Len(published[s]) - i < RingCapacity => InRing(s, i)

\* the frame at the tail of the ring of stream s is the one published last
\* for s, and the stored analysis of s is the one computed for that frame
AnalysisOfTail(s) ==
  /\ s \in DOMAIN stream_frames
  /\ Len(stream_frames[s]) > 0
  /\ stream_frames[s][Len(stream_frames[s])] = published[s][Len(published[s])]
  /\ active_streams[s].analysis = last_publish[s].analysis

(* C24: whenever stream_lock is free, the stored analysis of every ingested *)
(* stream is the analysis computed for the frame at the tail of that        *)
(* stream's ring.                                                           *)
C24_AnalysisMatchesTail ==
  stream_lock = "free" => \A s \in DOMAIN active_streams : AnalysisOfTail(s)

\* viewer v is connected, its generator is past the creation of the ring, and
\* the ring of its stream holds a frame
Watching(v) == viewer[v].open /\ PastCreate(v) /\ FrameAvailable(v)

(* C25: a connected viewer whose stream has a frame emits again and again,  *)
(* with no further frame published and whatever the age of the last one:    *)
(* from every state in which it has emitted n chunks it comes to emit       *)
(* another (n below the number of chunks the model records).                *)
C25_ViewerKeepsEmitting ==
  \A v \in Viewers : \A n \in 0..(MaxEmit - 1) :
    (Watching(v) /\ Len(emitted[v]) = n) ~> (Len(emitted[v]) > n)

====
